---- MODULE Spec2Model ----
(***************************************************************************)
(* TON618-Sim: the BlackHoleRenderer life cycle (init / render / resize /  *)
(* destroy) of src/src/lib/renderer.ts, run by a single-threaded host: the *)
(* event loop runs one handler at a time to completion, and an async       *)
(* function gives up the thread only at its awaits.  Every action below is *)
(* one such run-to-completion segment.                                     *)
(*                                                                         *)
(* Numbers are fixed point: distances, trigonometric values, speeds and    *)
(* the simulated time are integers in hundredths (Scale), angles are keys  *)
(* in thousandths of a radian.                                             *)
(***************************************************************************)
EXTENDS Integers, Sequences, FiniteSets

\* ------------------------------------------------------------------ bounds
MaxTicks == 3       \* executed ticks of the frame loop
MaxDestroy == 2     \* calls of destroy()
MaxMessages == 2    \* diagnostics returned by getCompilationInfo()
MaxYaw == 1         \* cameraAngleY stays within MaxYaw half radians of 0

\* --------------------------------------------------------------- constants
Scale == 10 * 10     \* fixed-point unit: one hundredth
BlockSlots == 24     \* new Float32Array(24)
BufferSize == 96     \* createBuffer({ size: 96 })
DrawVertices == 6    \* renderPass.draw(6, 1, 0, 0)
Quantum == 1         \* 0.01 simulated time per tick and unit of timeSpeed
Milli == 10 * 10 * 10 \* fixed-point unit of the kernel's fractions
MaxSteps == 500      \* for (var i = 0; i < 500; i++), max_steps
RS == 100            \* let RS = 1.0
MaxDist == 60000     \* max_dist = 600.0
DiskOuter == 2500    \* diskOuter = 25.0
MinDistance == 300   \* Math.max(3.0, ...)
MaxDistance == 30000 \* Math.min(300.0, ...)
AngleLimit == 1496   \* Math.PI / 2.1, in thousandths of a radian
LastStep == 7        \* TUTORIAL_STEPS.length - 1
NaN == -2000000000   \* the not-a-number value of a float slot

VARIABLES
    gpu,               \* navigator.gpu is present
    clientSize,        \* <<canvas.clientWidth, canvas.clientHeight>>
    dpr,               \* window.devicePixelRatio, in hundredths
    listeners,         \* identities of the functions listening for 'resize'
    bindCount,         \* function objects made by this.resize.bind(this)
    rafQueue,          \* handles of the pending animation frame callbacks
    rafNext,           \* last handle given out by requestAnimationFrame
    queue,             \* operations put on device.queue, in order
    bufferData,        \* content of the uniform buffer
    pc,                \* where init() stands
    initError,         \* text of the error init() rejected with
    adapter,           \* what requestAdapter() resolved to
    deviceRequested,   \* adapter.requestDevice() has been called
    compilationInfo,   \* messages getCompilationInfo() resolved to
    device,            \* this.device
    created,           \* render resources created so far
    canvas,            \* <<canvas.width, canvas.height>>
    time,              \* this.time
    animationFrameId,  \* this.animationFrameId
    destroyed,         \* this.destroyed
    state,             \* this.state
    destroyedAt,       \* history: where init() stood at the first destroy()
    destroyCalls,      \* history: calls of destroy()
    destroyThrew,      \* history: a call of destroy() raised an error
    ticks,             \* history: ticks whose body was executed
    mounted,           \* App: the component is mounted (its effects have run)
    appState,          \* App: the React state `state`
    rendererRef,       \* App: rendererRef.current is the renderer
    error,             \* App: the React state `error`, <<>> for null
    settled,           \* App: initRenderer has run past its await
    kBlock,            \* kernel: the uniform block u of the dispatch
    kI,                \* kernel: the loop counter i of fs_main
    kTransmit,         \* kernel: transmit, in thousandths
    kExit,             \* kernel: how the loop of fs_main ended
    kAdded,            \* kernel: the terms the last iteration added to col
    kStars,            \* kernel: how often the star term was added to col
    isDragging,        \* App: isDragging
    lastMousePos,      \* App: lastMousePos.current, <<x, y>>
    showTutorial,      \* App: showTutorial
    step               \* Tutorial: step

envVars == <<gpu, clientSize, dpr, listeners, bindCount, rafQueue, rafNext,
             queue, bufferData>>
initVars == <<pc, initError, adapter, deviceRequested, compilationInfo>>
fieldVars == <<device, created, canvas, time, animationFrameId, destroyed, state>>
histVars == <<destroyedAt, destroyCalls, destroyThrew, ticks>>
rendererVars == <<envVars, initVars, fieldVars, histVars>>
hostVars == <<mounted, appState, rendererRef, error, settled>>
kernelVars == <<kBlock, kI, kTransmit, kExit, kAdded, kStars>>
uiVars == <<isDragging, lastMousePos, showTutorial, step>>
vars == <<rendererVars, hostVars, kernelVars, uiVars>>

\* ------------------------------------------------------- parameter model
\* SimulationState; timeSpeed and cameraDistance in hundredths, the angles
\* in thousandths of a radian.
MkState(vm, wl, ts, mw, jets, dist, ax, ay) ==
    [viewMode |-> vm, wavelength |-> wl, timeSpeed |-> ts, showMilkyWay |-> mw,
     showJets |-> jets, cameraDistance |-> dist, cameraAngleX |-> ax,
     cameraAngleY |-> ay]

\* The value of the field initialiser of BlackHoleRenderer.state.
DefaultState == MkState(0, 0, 100, FALSE, TRUE, 1000, 200, 0)

\* The value App starts its useState with.
AppInitialState == MkState(0, 0, 100, FALSE, TRUE, 1200, 300, 0)

\* Snapshots the host hands to the renderer.
ParamSet ==
    { AppInitialState,
      MkState(0, 0, 100, TRUE, TRUE, 15000, 800, 0),
      MkState(1, 1, 50, FALSE, FALSE, 1200, 300, 300),
      MkState(3, 2, 0, FALSE, TRUE, 300, 0, 200) }

\* Snapshots a caller of the renderer can assign to its public state field:
\* those of the host, one whose camera sits at the origin and one whose
\* camera sits on the x axis at distance 10.
AnyParams ==
    ParamSet \cup {MkState(0, 0, 100, FALSE, TRUE, 0, 0, 0),
                   MkState(0, 0, 100, FALSE, TRUE, 1000, 0, 0)}

\* Logical sizes the canvas element can be laid out with.
ClientSizes == { <<101, 50>>, <<200, 100>> }

\* Device pixel ratios, in hundredths: 1, 1.5 and 2.
PixelRatios == {100, 150, 200}

\* ------------------------------------------------------ State Synchronizer
\* Math.cos and Math.sin in hundredths, on the angles the model uses.
Cos(a) == CASE a = 0 -> 100 [] a = 200 -> 98 [] a = 300 -> 96 [] a = 800 -> 70
Sin(a) == CASE a = 0 -> 0 [] a = 200 -> 20 [] a = 300 -> 30 [] a = 800 -> 72

RECURSIVE SqrtBetween(_, _, _)
SqrtBetween(n, lo, hi) ==
    IF lo >= hi THEN lo
    ELSE LET mid == (lo + hi + 1) \div 2
         IN  IF mid * mid <= n THEN SqrtBetween(n, mid, hi)
             ELSE SqrtBetween(n, lo, mid - 1)

\* Math.sqrt on integers: the largest r with r * r <= n.
Sqrt(n) == SqrtBetween(n, 0, 46340)

\* The float quotient -a / len, in hundredths; 0 / 0 is NaN.
NegDiv(a, len) == IF len = 0 THEN NaN ELSE 0 - ((a * Scale) \div len)

\* cx, cy, cz of updateUniforms: the camera position, in hundredths.
CameraPos(s) ==
    LET dist == s.cameraDistance
    IN  << (Cos(s.cameraAngleY) * Cos(s.cameraAngleX) * dist) \div (Scale * Scale),
           (Sin(s.cameraAngleX) * dist) \div Scale,
           (Sin(s.cameraAngleY) * Cos(s.cameraAngleX) * dist) \div (Scale * Scale) >>

\* updateUniforms: the 24 slots built from this.state, this.time and the canvas.
Pack(s, t, cv) ==
    LET cx == CameraPos(s)[1]
        cy == CameraPos(s)[2]
        cz == CameraPos(s)[3]
        len == Sqrt(cx * cx + cy * cy + cz * cz)
    IN  [i \in 0..(BlockSlots - 1) |->
            CASE i = 0 -> cv[1]
              [] i = 1 -> cv[2]
              [] i = 4 -> cx
              [] i = 5 -> cy
              [] i = 6 -> cz
              [] i = 8 -> NegDiv(cx, len)
              [] i = 9 -> NegDiv(cy, len)
              [] i = 10 -> NegDiv(cz, len)
              [] i = 12 -> 0
              [] i = 13 -> 1
              [] i = 14 -> 0
              [] i = 15 -> t
              [] i = 16 -> s.viewMode
              [] i = 17 -> s.wavelength
              [] i = 18 -> IF s.showMilkyWay THEN 1 ELSE 0
              [] i = 19 -> IF s.showJets THEN 1 ELSE 0
              [] OTHER -> 0]

\* A write that stops short of the scalars.
WriteBuffer_Partial(buf, offset, data) ==
    [i \in DOMAIN buf |->
        IF (i - offset) \in DOMAIN data /\ i - offset < 16 THEN data[i - offset]
        ELSE buf[i]]

\* device.queue.writeBuffer(buffer, offset, data): the buffer afterwards,
\* offset in slots.
WriteBuffer(buf, offset, data) ==
    [i \in DOMAIN buf |->
        IF (i - offset) \in DOMAIN data THEN data[i - offset] ELSE buf[i]]

\* A tick that advances the time by the quantum whatever the speed.
Advance_Unscaled(t, speed) == t + Quantum

\* this.time += 0.01 * this.state.timeSpeed
Advance(t, speed) == t + Quantum * speed

\* createBuffer: a new buffer is zero-filled.
ZeroBlock == [i \in 0..(BlockSlots - 1) |-> 0]

\* ------------------------------------------------------- the kernel's block
\* struct Uniforms of the kernel, member by member.
UniformMembers ==
    << [name |-> "resolution", type |-> "vec2"],
       [name |-> "cameraPos", type |-> "vec3"],
       [name |-> "cameraDir", type |-> "vec3"],
       [name |-> "cameraUp", type |-> "vec3"],
       [name |-> "time", type |-> "f32"],
       [name |-> "viewMode", type |-> "f32"],
       [name |-> "wavelength", type |-> "f32"],
       [name |-> "showMilkyWay", type |-> "f32"],
       [name |-> "showJets", type |-> "f32"],
       [name |-> "pad1", type |-> "f32"],
       [name |-> "pad2", type |-> "f32"],
       [name |-> "pad3", type |-> "f32"] >>

\* A layout that packs every member at 4 bytes.
AlignOf_Packed(t) == 4

\* Alignment and size, in bytes, of a member type in the uniform address space.
AlignOf(t) == CASE t = "f32" -> 4 [] t = "vec2" -> 8 [] t = "vec3" -> 16
SizeOf(t) == CASE t = "f32" -> 4 [] t = "vec2" -> 8 [] t = "vec3" -> 12

RoundUp(a, n) == ((n + a - 1) \div a) * a

\* Byte offset of the k-th member: the end of the member before it, rounded
\* up to the member's alignment.
RECURSIVE MemberOffset(_)
MemberOffset(k) ==
    IF k = 1 THEN 0
    ELSE RoundUp(AlignOf(UniformMembers[k].type),
                 MemberOffset(k - 1) + SizeOf(UniformMembers[k - 1].type))

\* The byte offsets of all members, and the position of each name.
MemberOffsets == [k \in 1..Len(UniformMembers) |-> MemberOffset(k)]

MemberIndices ==
    [f \in {UniformMembers[k].name : k \in 1..Len(UniformMembers)} |->
        CHOOSE k \in 1..Len(UniformMembers) : UniformMembers[k].name = f]

MemberIndex(f) == MemberIndices[f]

\* Byte offset of the member named f.
FieldOffset(f) == MemberOffsets[MemberIndex(f)]

\* Size of the struct: its end rounded up to its largest alignment.
StructSize ==
    LET n == Len(UniformMembers)
        align == CHOOSE a \in {AlignOf(UniformMembers[k].type) : k \in 1..n} :
                    \A k \in 1..n : AlignOf(UniformMembers[k].type) =< a
    IN  RoundUp(align, MemberOffset(n) + SizeOf(UniformMembers[n].type))

\* u.f as the kernel reads it from a block: the components of the member.
KernelRead(block, f) ==
    LET first == FieldOffset(f) \div 4
        n == SizeOf(UniformMembers[MemberIndex(f)].type) \div 4
    IN  [j \in 1..n |-> block[first + j - 1]]

\* ------------------------------------------------- the raymarching kernel
\* What one iteration of the loop meets: r = |p| at its top, in hundredths,
\* and for each layer whether p lies in its region and the density the noise
\* gives there, in thousandths; for the disk also the Doppler term
\* dot(v, velDir) * velMag * 2.5 and the grid pattern.  The path of the ray
\* and the noise are inputs of the model.
MkSample(r, disk, dens, dop, grid, jet, jetDens, mw, mwDens) ==
    [r |-> r, disk |-> disk, dens |-> dens, dop |-> dop, grid |-> grid,
     jet |-> jet, jetDens |-> jetDens, mw |-> mw, mwDens |-> mwDens]

Samples ==
    { MkSample(50, FALSE, 0, 0, 0, FALSE, 0, FALSE, 0),
      MkSample(70000, FALSE, 0, 0, 0, FALSE, 0, FALSE, 0),
      MkSample(200, FALSE, 0, 0, 0, FALSE, 0, FALSE, 0),
      MkSample(1000, FALSE, 0, 0, 0, FALSE, 0, FALSE, 0),
      MkSample(2400, TRUE, 3000, 400, 1000, FALSE, 0, FALSE, 0),
      MkSample(2400, TRUE, 3000, -1500, 0, FALSE, 0, FALSE, 0),
      MkSample(500, TRUE, 5, 0, 1000, FALSE, 0, FALSE, 0),
      MkSample(20000, FALSE, 0, 0, 0, TRUE, 280, TRUE, 2000),
      MkSample(2000, FALSE, 0, 0, 0, FALSE, 0, TRUE, 5) }

\* Snapshots whose blocks the kernel is dispatched with.
KernelParams ==
    { MkState(0, 0, 100, FALSE, TRUE, 1200, 300, 0),
      MkState(1, 1, 100, FALSE, TRUE, 1200, 300, 0),
      MkState(2, 2, 100, TRUE, FALSE, 1200, 300, 0),
      MkState(3, 3, 100, FALSE, FALSE, 1200, 300, 0) }

\* u.f for a scalar member f.
U(block, f) == KernelRead(block, f)[1]

\* exp(x) for x in thousandths, in thousandths: 1 + x + x^2/2 for x >= 0
\* and its reciprocal for x < 0.
Exp(x) ==
    IF x >= 0
    THEN (Milli * Milli + Milli * x + (x * x) \div 2) \div Milli
    ELSE (Milli * Milli * Milli) \div (Milli * Milli - Milli * x + (x * x) \div 2)

\* dt = min(2.0, base_dt * (1.0 + max(0.0, r - RS) * 0.3)), in thousandths.
StepSize(r) ==
    LET rDist == IF r - RS > 0 THEN r - RS ELSE 0
        dt == (50 * (Milli + 3 * rDist)) \div Milli
    IN  IF dt < 2 * Milli THEN dt ELSE 2 * Milli

\* A layer whose opacity grows the wrong way.
LayerAlpha_Growing(dens, dt, k) == Milli - Exp((dens * dt * k) \div (2 * Milli))

\* alpha = 1.0 - exp(-dens * dt * k / 2), for the layer's constant k / 2.
LayerAlpha(dens, dt, k) == Milli - Exp(0 - ((dens * dt * k) \div (2 * Milli)))

\* transmit *= (1.0 - alpha)
Attenuate(t, alpha) == (t * (Milli - alpha)) \div Milli

\* A disk palette that the grid mode does not replace.
EmitColor_NoGrid(viewMode, wavelength, dens, r) ==
    CASE wavelength = 1 -> <<100, 500, 1000>>
      [] wavelength = 2 -> <<1000, 100, 100>>
      [] wavelength = 3 -> <<800, 200, 0>>
      [] OTHER -> <<1000, 600, 200>>

\* emitColor of the disk: the palette of the wavelength, replaced per view mode.
EmitColor(viewMode, wavelength, dens, r) ==
    LET palette == CASE wavelength = 1 -> <<100, 500, 1000>>
                     [] wavelength = 2 -> <<1000, 100, 100>>
                     [] wavelength = 3 -> <<800, 200, 0>>
                     [] OTHER -> <<1000, 600, 200>>
        dil == LET q == Milli - (RS * Milli) \div r
               IN  Sqrt((IF q > 1 THEN q ELSE 1) * Milli)
    IN  CASE viewMode = 1 -> <<0, 1000, 500>>
          [] viewMode = 2 -> <<dens, dens \div 2, Milli - dens>>
          [] viewMode = 3 -> <<Milli - dil, dil \div 2, dil>>
          [] OTHER -> palette

\* The disk layer where dens > 0.01: density, Doppler factor and colour.
DiskShade(viewMode, wavelength, smp) ==
    LET raw == Milli + smp.dop
        beamed == IF raw > 100 THEN raw ELSE 100
    IN  [dens |-> IF viewMode = 1 THEN (smp.grid * 200) \div Milli ELSE smp.dens,
         doppler |-> IF viewMode \in {1, 2, 3} THEN Milli ELSE beamed,
         emitColor |-> EmitColor(viewMode, wavelength, smp.dens, smp.r)]

\* A jet layer that does not look at its flag.
InJet_Ungated(block, smp) == smp.r > RS /\ smp.jet

\* The geometry tests of the three layers on a sample.
InDisk(smp) == smp.disk /\ smp.r > (RS * 3) \div 2 /\ smp.r < DiskOuter
InJet(block, smp) == U(block, "showJets") * 2 > 1 /\ smp.r > RS /\ smp.jet
InMilkyWay(block, smp) == U(block, "showMilkyWay") * 2 > 1 /\ smp.mw

\* alpha of the disk, the jet and the backdrop layer on a sample.
DiskAlpha(block, smp) ==
    LayerAlpha(DiskShade(U(block, "viewMode"), U(block, "wavelength"), smp).dens,
               StepSize(smp.r), 4)

JetAlpha(block, smp) ==
    LayerAlpha(IF U(block, "viewMode") = 1 THEN 0 ELSE smp.jetDens,
               StepSize(smp.r), 2)

MilkyWayAlpha(block, smp) == LayerAlpha(smp.mwDens, StepSize(smp.r), 1)

\* transmit after the disk, the jet and the backdrop layer of one iteration.
AfterDisk(block, smp, t) ==
    IF InDisk(smp) /\ smp.dens > 10
    THEN Attenuate(t, DiskAlpha(block, smp))
    ELSE t

AfterJet(block, smp, t) ==
    IF InJet(block, smp) THEN Attenuate(t, JetAlpha(block, smp)) ELSE t

AfterMilkyWay(block, smp, t) ==
    IF InMilkyWay(block, smp) /\ smp.mwDens > 10
    THEN Attenuate(t, MilkyWayAlpha(block, smp))
    ELSE t

\* A term of col: the layer it comes from and the weight its colour is
\* added with, in thousandths.
Term(layer, weight) == [layer |-> layer, weight |-> weight]

\* col += transmit * emit * alpha of the disk, where it composites.
DiskTerms(block, smp, t) ==
    IF InDisk(smp) /\ smp.dens > 10
    THEN {Term("disk", (t * DiskAlpha(block, smp)) \div Milli)}
    ELSE {}

\* col += transmit * jetColor * jetDens * 10.0 * alpha
JetTerms(block, smp, t) ==
    IF InJet(block, smp)
    THEN {Term("jet", (t * JetAlpha(block, smp)) \div Milli)}
    ELSE {}

\* col += transmit * emit * alpha of the backdrop, where it composites.
MilkyWayTerms(block, smp, t) ==
    IF InMilkyWay(block, smp) /\ smp.mwDens > 10
    THEN {Term("backdrop", (t * MilkyWayAlpha(block, smp)) \div Milli)}
    ELSE {}

\* The terms the three layers add to col in one iteration that starts with
\* transmit t: each layer sees what the layers before it left of transmit.
LayerTerms(block, smp, t) ==
    DiskTerms(block, smp, t)
    \cup JetTerms(block, smp, AfterDisk(block, smp, t))
    \cup MilkyWayTerms(block, smp, AfterJet(block, smp, AfterDisk(block, smp, t)))

\* A capture that adds the stars behind the hole.
CaptureTerms_Stars(t) == {Term("stars", t)}

\* if (r < RS) { break; } adds nothing to col.
CaptureTerms(t) == {}

\* col += vec3<f32>(star) * transmit
BackgroundTerms(t) == {Term("stars", t)}

\* How many star terms a set of terms holds.
StarCount(terms) == Cardinality({x \in terms : x.layer = "stars"})

\* A loop whose counter has no limit.
LoopContinues_Unbounded(i) == TRUE

\* i < 500
LoopContinues(i) == i < MaxSteps

\* if (r < RS)
Captured(r) == r < RS

\* hit_bg = (r > max_dist) || (i == max_steps - 1 && r > 3.0)
HitBackground(i, r) == r > MaxDist \/ (i = MaxSteps - 1 /\ r > 3 * Scale)

\* --------------------------------------------------------- host environment
\* A compilation message: its type and its text.
MessageTypes == {"error", "warning"}
MessageTexts == {"a", "b"}
Messages == [type : MessageTypes, message : MessageTexts]
MessageLists == UNION {[1..n -> Messages] : n \in 0..MaxMessages}

\* window.devicePixelRatio || 1
PixelRatio == IF dpr = 0 THEN Scale ELSE dpr

\* A resize() that leaves the pixel ratio out.
Resize_NoRatio(cs) == cs

\* resize(): the canvas size for a logical size.  canvas.width and
\* canvas.height are integers: an assigned number loses its fraction.
Resize(cs) == <<(cs[1] * PixelRatio) \div Scale, (cs[2] * PixelRatio) \div Scale>>

\* ------------------------------------------------------------------ init()
UnsupportedMsg == <<"WebGPU not supported on this browser.">>
NoAdapterMsg == <<"No appropriate GPUAdapter found.">>
ShaderFailedMsg == <<"Shader compilation failed:\n">>

Init ==
    /\ gpu \in BOOLEAN
    /\ clientSize \in ClientSizes
    /\ dpr \in PixelRatios
    /\ listeners = {}
    /\ bindCount = 0
    /\ rafQueue = {}
    /\ rafNext = 0
    /\ queue = <<>>
    /\ bufferData = ZeroBlock
    /\ pc = "new"
    /\ initError = <<>>
    /\ adapter = "pending"
    /\ deviceRequested = FALSE
    /\ compilationInfo = <<>>
    /\ device = "undefined"
    /\ created = {}
    /\ canvas = <<300, 150>>
    /\ time = 0
    /\ animationFrameId = 0
    /\ destroyed = FALSE
    /\ state = DefaultState
    /\ destroyedAt = "never"
    /\ destroyCalls = 0
    /\ destroyThrew = FALSE
    /\ ticks = 0
    /\ mounted = FALSE
    /\ appState = AppInitialState
    /\ rendererRef = FALSE
    /\ error = <<>>
    /\ settled = FALSE
    /\ kBlock = ZeroBlock
    /\ kI = 0
    /\ kTransmit = Milli
    /\ kExit = "idle"
    /\ kAdded = {}
    /\ kStars = 0
    /\ isDragging = FALSE
    /\ lastMousePos = <<0, 0>>
    /\ showTutorial = TRUE
    /\ step = 0

\* render without its check of the destroyed flag.
RenderStopped_Unchecked == FALSE

\* if (this.destroyed) return;  at the top of render
RenderStopped == destroyed

\* A tick that reads the snapshot the renderer was constructed with.
TickState_Stale == DefaultState

\* The snapshot a tick reads: this.state at the time of the tick.
TickState == state

\* A tick that submits its draw before it writes the block.
TickOps_SubmitFirst ==
    << [op |-> "submit", arg |-> <<DrawVertices>>],
       [op |-> "writeBuffer", arg |-> <<0, BlockSlots>>] >>

\* The queue operations of one tick, in program order: writeBuffer of the
\* whole block at offset 0, then one submit of a command buffer whose render
\* pass holds the listed draws (vertex counts).
TickOps ==
    << [op |-> "writeBuffer", arg |-> <<0, BlockSlots>>],
       [op |-> "submit", arg |-> <<DrawVertices>>] >>

\* A tick that requests the next frame twice.
RequestFrame_Twice(pending, last) ==
    [pending |-> pending \cup {last + 1, last + 2}, last |-> last + 2,
     id |-> last + 2]

\* this.animationFrameId = requestAnimationFrame(this.render): the handles
\* pending afterwards and the handle stored.
RequestFrame(pending, last) ==
    [pending |-> pending \cup {last + 1}, last |-> last + 1, id |-> last + 1]

\* render(), entered with the given animation frame callbacks pending.
Render(pending) ==
    IF RenderStopped
    THEN /\ rafQueue' = pending
         /\ UNCHANGED <<time, bufferData, queue, rafNext, animationFrameId, ticks>>
    ELSE /\ time' = Advance(time, TickState.timeSpeed)
         /\ bufferData' = WriteBuffer(bufferData, 0, Pack(TickState, time', canvas'))
         /\ queue' = queue \o TickOps
         /\ LET r == RequestFrame(pending, rafNext)
            IN  /\ rafQueue' = r.pending
                /\ rafNext' = r.last
                /\ animationFrameId' = r.id
         /\ ticks' = ticks + 1

\* init() up to its first await.
CallInit ==
    /\ pc = "new"
    /\ IF ~gpu
       THEN pc' = "rejected" /\ initError' = UnsupportedMsg
       ELSE pc' = "awaitAdapter" /\ UNCHANGED initError
    /\ UNCHANGED <<envVars, adapter, deviceRequested, compilationInfo, fieldVars,
                   histVars>>

\* init without its check of the adapter.
AdapterMissing_Unchecked(a) == FALSE

\* if (!adapter)
AdapterMissing(a) == a = "null"

\* init() from the adapter's arrival to the request of the device.
AdapterResolved ==
    /\ pc = "awaitAdapter"
    /\ \E a \in {"null", "ok"} :
        /\ adapter' = a
        /\ IF AdapterMissing(a)
           THEN pc' = "rejected" /\ initError' = NoAdapterMsg
                /\ UNCHANGED deviceRequested
           ELSE pc' = "awaitDevice" /\ deviceRequested' = TRUE
                /\ UNCHANGED initError
    /\ UNCHANGED <<envVars, compilationInfo, fieldVars, histVars>>

\* init without its check of the destroyed flag after the device's arrival.
DestroyedAfterDevice_Unchecked == FALSE

\* if (this.destroyed)  after the device has arrived
DestroyedAfterDevice == destroyed

\* init() from the device's arrival to the request of the compilation info.
DeviceResolved ==
    /\ pc = "awaitDevice"
    /\ IF DestroyedAfterDevice
       THEN /\ device' = "destroyed"
            /\ pc' = "resolved"
            /\ UNCHANGED created
       ELSE /\ device' = "live"
            /\ created' = created \cup {"context", "shaderModule"}
            /\ pc' = "awaitCompilationInfo"
    /\ UNCHANGED <<envVars, initError, adapter, deviceRequested, compilationInfo,
                   canvas, time, animationFrameId, destroyed, state, histVars>>

\* A scan that takes every message for an error.
IsError_Any(m) == TRUE

\* msg.type === 'error'
IsError(m) == m.type = "error"

\* The loop over compilationInfo.messages: hasError and errorMsg after it.
RECURSIVE ScanMessages(_, _, _)
ScanMessages(msgs, hasError, errorMsg) ==
    IF msgs = <<>> THEN [hasError |-> hasError, errorMsg |-> errorMsg]
    ELSE IF IsError(Head(msgs))
         THEN ScanMessages(Tail(msgs), TRUE,
                           errorMsg \o <<Head(msgs).message, "\n">>)
         ELSE ScanMessages(Tail(msgs), hasError, errorMsg)

\* init() from the compilation info's arrival to its end.
CompilationInfoResolved ==
    /\ pc = "awaitCompilationInfo"
    /\ \E msgs \in MessageLists :
        LET scan == ScanMessages(msgs, FALSE, <<>>)
        IN  /\ compilationInfo' = msgs
            /\ IF Len(msgs) > 0 /\ scan.hasError
               THEN /\ pc' = "rejected"
                    /\ initError' = ShaderFailedMsg \o scan.errorMsg
                    /\ UNCHANGED <<envVars, fieldVars, ticks>>
               ELSE /\ pc' = "resolved"
                    /\ created' = created \cup {"pipeline", "uniformBuffer", "bindGroup"}
                    /\ canvas' = Resize(clientSize)
                    /\ listeners' = listeners \cup {bindCount + 1}
                    /\ bindCount' = bindCount + 1
                    /\ Render(rafQueue)
                    /\ UNCHANGED <<gpu, clientSize, dpr, initError, device,
                                   destroyed, state>>
    /\ UNCHANGED <<adapter, deviceRequested, destroyedAt, destroyCalls, destroyThrew>>

\* ---------------------------------------------------------------- handlers
\* The host runs a pending animation frame callback.
FrameCallback ==
    /\ ticks < MaxTicks
    /\ \E id \in rafQueue :
        /\ UNCHANGED canvas
        /\ Render(rafQueue \ {id})
    /\ UNCHANGED <<gpu, clientSize, dpr, listeners, bindCount, initVars, device,
                   created, destroyed, state, destroyedAt, destroyCalls,
                   destroyThrew>>

\* this.device.destroy() without the optional chaining: a TypeError while
\* no device has been acquired.
OptionalDestroy_Unguarded(dev) ==
    IF dev = "undefined" THEN [device |-> dev, threw |-> TRUE]
    ELSE [device |-> "destroyed", threw |-> FALSE]

\* this.device?.destroy(): the device afterwards, and whether the call threw.
OptionalDestroy(dev) ==
    IF dev = "undefined" THEN [device |-> dev, threw |-> FALSE]
    ELSE [device |-> "destroyed", threw |-> FALSE]

\* destroy()
Destroy ==
    /\ destroyCalls < MaxDestroy
    /\ destroyed' = TRUE
    /\ rafQueue' = rafQueue \ {animationFrameId}
    /\ listeners' = listeners \ {bindCount + 1}
    /\ bindCount' = bindCount + 1
    /\ device' = OptionalDestroy(device).device
    /\ destroyThrew' = (destroyThrew \/ OptionalDestroy(device).threw)
    /\ destroyedAt' = IF destroyCalls = 0 THEN pc ELSE destroyedAt
    /\ destroyCalls' = destroyCalls + 1
    /\ UNCHANGED <<gpu, clientSize, dpr, rafNext, queue, bufferData, initVars,
                   created, canvas, time, animationFrameId, state, ticks>>

\* The window is resized: the canvas gets another logical size and every
\* 'resize' listener runs resize().
WindowResize ==
    /\ \E cs \in ClientSizes \ {clientSize} :
        /\ clientSize' = cs
        /\ canvas' = IF listeners # {} THEN Resize(cs) ELSE canvas
    /\ UNCHANGED <<gpu, dpr, listeners, bindCount, rafQueue, rafNext, queue,
                   bufferData, initVars, device, created, time, animationFrameId,
                   destroyed, state, histVars>>

\* renderer.state = s: the host replaces the parameter snapshot.
SetParameters ==
    /\ \E s \in AnyParams \ {state} : state' = s
    /\ UNCHANGED <<envVars, initVars, device, created, canvas, time,
                   animationFrameId, destroyed, histVars>>

\* What the renderer's own steps leave alone.
outside == <<hostVars, kernelVars, uiVars>>

\* The renderer driven by any caller: destroy() and the replacement of the
\* snapshot may come at any time.
Next ==
    \/ CallInit /\ UNCHANGED outside
    \/ AdapterResolved /\ UNCHANGED outside
    \/ DeviceResolved /\ UNCHANGED outside
    \/ CompilationInfoResolved /\ UNCHANGED outside
    \/ FrameCallback /\ UNCHANGED outside
    \/ Destroy /\ UNCHANGED outside
    \/ WindowResize /\ UNCHANGED outside
    \/ SetParameters /\ UNCHANGED outside

Spec == Init /\ [][Next]_vars

\* -------------------------------------------------------------- the App host
\* initRenderer stands at its `await renderer.init()` with the promise
\* settled: its continuation is a microtask, run before any other handler.
SettlePending == pc \in {"resolved", "rejected"} /\ ~settled

\* The `state` initRenderer's closure holds: that of the first render.
CapturedState == AppInitialState

\* err.message || 'Failed to initialize WebGPU.'
ErrorText(msg) == IF msg = <<>> THEN <<"Failed to initialize WebGPU.">> ELSE msg

\* An initRenderer that stores the renderer whatever init() came to.
InitFulfilled_Always(outcome) == TRUE

\* The statements after `await renderer.init()` run when init() is fulfilled.
InitFulfilled(outcome) == outcome = "resolved"

\* The mount effect: new BlackHoleRenderer(canvas) and the call of init().
AppMount ==
    /\ ~mounted
    /\ mounted' = TRUE
    /\ CallInit
    /\ UNCHANGED <<appState, rendererRef, error, settled, kernelVars, uiVars>>

\* initRenderer after its await: the ref and the snapshot on success, the
\* error message on failure.
InitSettled ==
    /\ SettlePending
    /\ settled' = TRUE
    /\ IF InitFulfilled(pc)
       THEN rendererRef' = TRUE /\ state' = CapturedState
       ELSE UNCHANGED <<rendererRef, state>>
    /\ IF pc = "rejected"
       THEN error' = ErrorText(initError)
       ELSE UNCHANGED error
    /\ UNCHANGED <<envVars, initVars, device, created, canvas, time,
                   animationFrameId, destroyed, histVars, mounted, appState,
                   kernelVars, uiVars>>

\* setState from a control, and the effect that follows the render: the
\* controls are rendered while there is no error.
AppSetState ==
    /\ mounted /\ error = <<>> /\ ~SettlePending
    /\ \E s \in ParamSet \ {appState} :
        /\ appState' = s
        /\ IF rendererRef THEN state' = s ELSE UNCHANGED state
    /\ UNCHANGED <<envVars, initVars, device, created, canvas, time,
                   animationFrameId, destroyed, histVars, mounted, rendererRef,
                   error, settled, kernelVars, uiVars>>

\* The cleanup of the mount effect: rendererRef.current?.destroy().
AppUnmount ==
    /\ mounted /\ ~SettlePending
    /\ mounted' = FALSE
    /\ IF rendererRef THEN Destroy ELSE UNCHANGED rendererVars
    /\ UNCHANGED <<appState, rendererRef, error, settled, kernelVars, uiVars>>

NextApp ==
    \/ AppMount
    \/ InitSettled
    \/ AppSetState
    \/ AppUnmount
    \/ ~SettlePending /\ AdapterResolved /\ UNCHANGED outside
    \/ ~SettlePending /\ DeviceResolved /\ UNCHANGED outside
    \/ ~SettlePending /\ CompilationInfoResolved /\ UNCHANGED outside
    \/ ~SettlePending /\ FrameCallback /\ UNCHANGED outside
    \/ ~SettlePending /\ WindowResize /\ UNCHANGED outside

\* The renderer as App drives it.
SpecApp == Init /\ [][NextApp]_vars

\* ------------------------------------------------------------ the controls
\* What the pointer, the wheel and the controls send.
MousePositions == {<<0, 0>>, <<50, 120>>}
WheelDeltas == {-10000, 4000}
ViewButtons == {0, 2}
WavelengthButtons == {0, 3}
SliderValues == {0, Scale}

Min(a, b) == IF a < b THEN a ELSE b
Max(a, b) == IF a > b THEN a ELSE b

\* A handler that stores what it computed.
Clamp_None(lo, hi, v) == v

\* Math.max(lo, Math.min(hi, v))
Clamp(lo, hi, v) == Max(lo, Min(hi, v))

\* The controls are rendered while there is no error.
UiShown == error = <<>>

\* The frame of a handler of the controls.
UiFrame == UNCHANGED <<rendererVars, mounted, rendererRef, error, settled, kernelVars>>

\* The updater of handleMouseMove for a pointer delta <<dx, dy>>.
Drag(s, dx, dy) ==
    [s EXCEPT !.cameraAngleY = s.cameraAngleY - dx * 10,
              !.cameraAngleX = Clamp(0 - AngleLimit, AngleLimit,
                                     s.cameraAngleX + dy * 10)]

\* An updater that builds its result without spreading prev.
Wheel_Unspread(s, deltaY) ==
    [AppInitialState EXCEPT !.cameraDistance =
        Clamp(MinDistance, MaxDistance, s.cameraDistance + deltaY * 5)]

\* The updater of handleWheel for e.deltaY.
Wheel(s, deltaY) ==
    [s EXCEPT !.cameraDistance = Clamp(MinDistance, MaxDistance,
                                       s.cameraDistance + deltaY * 5)]

\* The updater of the Milky-Way button.
ToggleMilkyWay(s) ==
    [s EXCEPT !.showMilkyWay = ~s.showMilkyWay,
              !.cameraDistance = IF ~s.showMilkyWay THEN 15000 ELSE 1200,
              !.cameraAngleX = IF ~s.showMilkyWay THEN 800 ELSE 300]

\* The steps of TUTORIAL_STEPS that have an action.
StepsWithAction == {0, 4, 5, 6, 7}

\* The action of step n applied to the parameters.
StepAction(n, s) ==
    CASE n = 0 -> [s EXCEPT !.viewMode = 0, !.wavelength = 0, !.showMilkyWay = FALSE]
      [] n = 4 -> [s EXCEPT !.viewMode = 1]
      [] n = 5 -> [s EXCEPT !.viewMode = 0, !.wavelength = 1]
      [] n = 6 -> [s EXCEPT !.wavelength = 0, !.showMilkyWay = TRUE,
                            !.cameraDistance = 15000, !.cameraAngleX = 800]
      [] n = 7 -> [s EXCEPT !.showMilkyWay = FALSE, !.cameraDistance = 1200]
      [] OTHER -> s

\* The effect of Tutorial on [step]: the action of the step entered.
EnterStep(n, s) == IF n \in StepsWithAction THEN StepAction(n, s) ELSE s

\* A next that does not stop at the last step.
NextStep_Unbounded(n) == n + 1

NextStep(n) == Min(LastStep, n + 1)
PrevStep(n) == Max(0, n - 1)

HandleMouseDown ==
    /\ UiShown
    /\ \E pos \in MousePositions : lastMousePos' = pos
    /\ isDragging' = TRUE
    /\ UNCHANGED <<appState, showTutorial, step>>
    /\ UiFrame

HandleMouseMove ==
    /\ UiShown
    /\ isDragging
    /\ \E pos \in MousePositions :
        LET s == Drag(appState, pos[1] - lastMousePos[1], pos[2] - lastMousePos[2])
        IN  /\ s.cameraAngleY <= MaxYaw * 500
            /\ s.cameraAngleY >= 0 - MaxYaw * 500
            /\ appState' = s
            /\ lastMousePos' = pos
    /\ UNCHANGED <<isDragging, showTutorial, step>>
    /\ UiFrame

\* onMouseUp and onMouseLeave.
HandleMouseUp ==
    /\ UiShown
    /\ isDragging' = FALSE
    /\ UNCHANGED <<appState, lastMousePos, showTutorial, step>>
    /\ UiFrame

HandleWheel ==
    /\ UiShown
    /\ \E deltaY \in WheelDeltas : appState' = Wheel(appState, deltaY)
    /\ UNCHANGED uiVars
    /\ UiFrame

ClickViewMode ==
    /\ UiShown
    /\ \E idx \in ViewButtons : appState' = [appState EXCEPT !.viewMode = idx]
    /\ UNCHANGED uiVars
    /\ UiFrame

ClickWavelength ==
    /\ UiShown
    /\ \E idx \in WavelengthButtons : appState' = [appState EXCEPT !.wavelength = idx]
    /\ UNCHANGED uiVars
    /\ UiFrame

ChangeTimeSpeed ==
    /\ UiShown
    /\ \E v \in SliderValues : appState' = [appState EXCEPT !.timeSpeed = v]
    /\ UNCHANGED uiVars
    /\ UiFrame

ClickJets ==
    /\ UiShown
    /\ appState' = [appState EXCEPT !.showJets = ~appState.showJets]
    /\ UNCHANGED uiVars
    /\ UiFrame

ClickMilkyWay ==
    /\ UiShown
    /\ appState' = ToggleMilkyWay(appState)
    /\ UNCHANGED uiVars
    /\ UiFrame

\* next or prev of Tutorial, and the effect that runs when step has changed.
TutorialMove ==
    /\ UiShown
    /\ showTutorial
    /\ \E n \in {NextStep(step), PrevStep(step)} :
        /\ step' = n
        /\ appState' = IF n # step THEN EnterStep(n, appState) ELSE appState
    /\ UNCHANGED <<isDragging, lastMousePos, showTutorial>>
    /\ UiFrame

\* onClose: Tutorial is unmounted and its step is dropped.
TutorialClose ==
    /\ UiShown
    /\ showTutorial
    /\ showTutorial' = FALSE
    /\ step' = 0
    /\ UNCHANGED <<appState, isDragging, lastMousePos>>
    /\ UiFrame

\* setShowTutorial(true): Tutorial is mounted at step 0 and its effect runs.
TutorialOpen ==
    /\ UiShown
    /\ ~showTutorial
    /\ showTutorial' = TRUE
    /\ step' = 0
    /\ appState' = EnterStep(0, appState)
    /\ UNCHANGED <<isDragging, lastMousePos>>
    /\ UiFrame

NextUI ==
    \/ HandleMouseDown
    \/ HandleMouseMove
    \/ HandleMouseUp
    \/ HandleWheel
    \/ ClickViewMode
    \/ ClickWavelength
    \/ ChangeTimeSpeed
    \/ ClickJets
    \/ ClickMilkyWay
    \/ TutorialMove
    \/ TutorialClose
    \/ TutorialOpen

InitUI == Init /\ gpu /\ dpr = Scale /\ clientSize = <<101, 50>>

\* The controls of App and the Tutorial, on the parameters they produce.
SpecUI == InitUI /\ [][NextUI]_vars

\* ------------------------------------------------------ fragment stage
\* A fragment invocation starts: u is bound, i = 0, transmit = 1.0.
KernelStart ==
    /\ kExit = "idle"
    /\ \E s \in KernelParams : kBlock' = Pack(s, 0, Resize(clientSize))
    /\ kI' = 0
    /\ kTransmit' = Milli
    /\ kExit' = "none"
    /\ kAdded' = {}
    /\ kStars' = 0
    /\ UNCHANGED <<rendererVars, hostVars, uiVars>>

\* One iteration of the loop, with the test of i < 500 that follows it.
KernelStep ==
    /\ kExit = "none"
    /\ LoopContinues(kI)
    /\ \E smp \in Samples :
        IF Captured(smp.r)
        THEN /\ kExit' = "horizon"
             /\ kAdded' = CaptureTerms(kTransmit)
             /\ kStars' = kStars + StarCount(kAdded')
             /\ UNCHANGED <<kI, kTransmit>>
        ELSE IF HitBackground(kI, smp.r)
        THEN /\ kExit' = "background"
             /\ kAdded' = BackgroundTerms(kTransmit)
             /\ kStars' = kStars + StarCount(kAdded')
             /\ UNCHANGED <<kI, kTransmit>>
        ELSE LET t == AfterMilkyWay(kBlock, smp,
                         AfterJet(kBlock, smp, AfterDisk(kBlock, smp, kTransmit)))
             IN  /\ kTransmit' = t
                 /\ kAdded' = LayerTerms(kBlock, smp, kTransmit)
                 /\ UNCHANGED kStars
                 /\ IF t < 10
                    THEN kExit' = "opaque" /\ UNCHANGED kI
                    ELSE /\ kI' = kI + 1
                         /\ kExit' = IF LoopContinues(kI + 1) THEN "none" ELSE "budget"
    /\ UNCHANGED <<rendererVars, hostVars, uiVars, kBlock>>

NextKernel == KernelStart \/ KernelStep

\* One fragment invocation of fs_main on a block the host can pack, on a
\* machine with WebGPU.
InitKernel == Init /\ gpu /\ dpr = Scale /\ clientSize = <<200, 100>>

SpecKernel == InitKernel /\ [][NextKernel]_vars

\* ------------------------------------------------------------ vertex stage
\* vs_main: the clip-space position of each vertex index.
VertexPos ==
    << <<-1, -1>>, <<1, -1>>, <<-1, 1>>,
       <<-1, 1>>, <<1, -1>>, <<1, 1>> >>

\* Twice the signed area of (a, b, p): on which side of the edge a-b p lies.
EdgeSide(a, b, p) ==
    (b[1] - a[1]) * (p[2] - a[2]) - (b[2] - a[2]) * (p[1] - a[1])

\* p, in halves of a clip-space unit, lies in the k-th triangle of the list.
InTriangle(k, p) ==
    LET a == <<2 * VertexPos[3 * k - 2][1], 2 * VertexPos[3 * k - 2][2]>>
        b == <<2 * VertexPos[3 * k - 1][1], 2 * VertexPos[3 * k - 1][2]>>
        c == <<2 * VertexPos[3 * k][1], 2 * VertexPos[3 * k][2]>>
        e1 == EdgeSide(a, b, p)
        e2 == EdgeSide(b, c, p)
        e3 == EdgeSide(c, a, p)
    IN  \/ (e1 >= 0 /\ e2 >= 0 /\ e3 >= 0)
        \/ (e1 =< 0 /\ e2 =< 0 /\ e3 =< 0)

\* A draw of n vertices as a triangle list covers the whole clip-space square.
CoversScreen(n) ==
    \A x \in -2..2 : \A y \in -2..2 :
        \E k \in 1..(n \div 3) : InTriangle(k, <<x, y>>)

\* ------------------------------------------------------------------ claims
RenderResources == {"pipeline", "uniformBuffer", "bindGroup"}

\* C1: when destroy() is called while init() awaits the adapter or the
\* device, the device is destroyed as it arrives (it is never live), and no
\* render resource is created, no resize listener registered, no frame
\* requested and nothing put on the queue, ever.
C1_DestroyBeforeDevice ==
    destroyedAt \in {"awaitAdapter", "awaitDevice"} =>
        /\ device # "live"
        /\ (pc = "resolved" => device = "destroyed")
        /\ created = {}
        /\ listeners = {}
        /\ rafQueue = {}
        /\ queue = <<>>
        /\ ticks = 0

\* C1 witness: destroy() came while the device was awaited, and the device
\* has arrived and been destroyed.
C1_Witness ==
    destroyedAt = "awaitDevice" /\ pc = "resolved" /\ device = "destroyed"

\* C2: whenever destroy() is called before init() has passed its last
\* await, no pipeline, uniform buffer or bind group is created, no resize
\* listener is registered and no frame is submitted.
C2_NoCreationAfterDestroy ==
    destroyedAt \in {"new", "awaitAdapter", "awaitDevice", "awaitCompilationInfo"} =>
        /\ created \cap RenderResources = {}
        /\ listeners = {}
        /\ queue = <<>>

\* C3: once destroy() has been called no tick executes its body: the
\* simulated time, the uniform buffer and the queue stay as they are, and no
\* animation frame is requested.
C3_NoTickAfterDestroy ==
    [][destroyed =>
        /\ time' = time
        /\ bufferData' = bufferData
        /\ queue' = queue
        /\ ticks' = ticks
        /\ rafNext' = rafNext
        /\ rafQueue' \subseteq rafQueue]_vars

\* C3 witness: destroy() was called on a renderer whose loop was running.
C3_Witness ==
    destroyed /\ destroyedAt = "resolved" /\ ticks >= 1 /\ rafQueue = {}

\* C4: after a destroy() of an initialized renderer, no resize listener of
\* the renderer is attached to the window.
C4_ListenerDetached ==
    destroyedAt = "resolved" => listeners = {}

\* What a caller can observe of the renderer and of its environment.
Observable ==
    <<destroyed, device, rafQueue, listeners, created, canvas, time, queue,
      bufferData, pc, initError, state, animationFrameId>>

\* C5: a call of destroy() on a renderer that destroy() has already been
\* called on changes nothing observable, and no call of destroy() raises an
\* error.
C5_DestroyIdempotent ==
    [][destroyCalls' = destroyCalls + 1 =>
        /\ ~destroyThrew'
        /\ destroyed'
        /\ (destroyed => Observable' = Observable)]_vars

\* C5 witness: destroy() has been called twice on a running renderer.
C5_Witness ==
    destroyCalls >= 2 /\ destroyedAt = "resolved" /\ device = "destroyed"

\* C6: at most one animation frame callback is pending, and every executed
\* tick leaves exactly one pending, newly requested.
C6_OneOutstandingFrame ==
    /\ [](Cardinality(rafQueue) =< 1)
    /\ [][ticks' = ticks + 1 =>
            /\ rafNext' = rafNext + 1
            /\ rafQueue' = {rafNext'}
            /\ animationFrameId' = rafNext']_vars

\* C6 witness: a tick run from a frame callback has requested the next one.
C6_Witness ==
    ticks >= 2 /\ Cardinality(rafQueue) = 1

\* C7: the queue holds, for each executed tick in turn, one write of the
\* whole block followed by one submit of a single draw that covers the
\* screen; and the buffer changes in no step other than a tick.
C7_WriteThenDraw ==
    /\ [](/\ Len(queue) = 2 * ticks
          /\ \A k \in 1..ticks :
                /\ queue[2 * k - 1].op = "writeBuffer"
                /\ queue[2 * k - 1].arg = <<0, BlockSlots>>
                /\ queue[2 * k].op = "submit"
                /\ Len(queue[2 * k].arg) = 1
                /\ CoversScreen(queue[2 * k].arg[1]))
    /\ [][bufferData' # bufferData => ticks' = ticks + 1]_vars

\* C7 witness: two ticks have been executed.
C7_Witness ==
    ticks = 2 /\ Len(queue) = 4

\* C8: every tick advances the time by the timeSpeed of, and packs the
\* block from, the snapshot the renderer holds when the tick starts, which
\* is the one the host set last.
C8_LatestSnapshot ==
    [][ticks' = ticks + 1 =>
        /\ time' = time + Quantum * state.timeSpeed
        /\ bufferData' = Pack(state, time', canvas')]_vars

\* C8 witness: a tick has packed a snapshot the host had set.
C8_Witness ==
    /\ ticks >= 2
    /\ state \in ParamSet
    /\ state.viewMode = 1
    /\ bufferData = Pack(state, time, canvas)

\* init() has gone past the await of the compilation info.
CompilationDone ==
    pc \in {"resolved", "rejected"} /\ "shaderModule" \in created

ErrorMessages(msgs) == SelectSeq(msgs, LAMBDA m : m.type = "error")

\* Each message's text followed by a newline.
Lines(msgs) ==
    [i \in 1..(2 * Len(msgs)) |->
        IF i % 2 = 1 THEN msgs[(i + 1) \div 2].message ELSE "\n"]

\* C9: with an error among the diagnostics init() is rejected with the
\* header followed by the text of the error messages, in order, and has
\* created no pipeline, buffer or bind group, registered no listener and run
\* no tick; with no error among them init() is not rejected.
C9_ShaderCompileError ==
    CompilationDone =>
        IF \E i \in 1..Len(compilationInfo) : compilationInfo[i].type = "error"
        THEN /\ pc = "rejected"
             /\ initError = ShaderFailedMsg \o Lines(ErrorMessages(compilationInfo))
             /\ created \cap RenderResources = {}
             /\ listeners = {}
             /\ rafQueue = {}
             /\ queue = <<>>
             /\ ticks = 0
        ELSE pc = "resolved" /\ initError = <<>>

\* C9 witness: init() failed on diagnostics that hold an error and a warning.
C9_Witness ==
    /\ pc = "rejected"
    /\ Len(compilationInfo) = 2
    /\ \E i, j \in 1..2 :
        compilationInfo[i].type = "error" /\ compilationInfo[j].type = "warning"

\* C10: without navigator.gpu init() is rejected with the unsupported text,
\* with no adapter it is rejected with the no-adapter text, in both cases
\* with no device requested; and the text of a rejection tells which of the
\* three failures it was.
C10_InitErrors ==
    /\ (pc # "new" /\ ~gpu =>
            pc = "rejected" /\ initError = UnsupportedMsg /\ ~deviceRequested)
    /\ (adapter = "null" =>
            pc = "rejected" /\ initError = NoAdapterMsg /\ ~deviceRequested)
    /\ (pc = "rejected" =>
            /\ (initError = UnsupportedMsg <=> ~gpu)
            /\ (initError = NoAdapterMsg <=> adapter = "null")
            /\ (Head(initError) = Head(ShaderFailedMsg) <=> CompilationDone))

\* C10 witness: init() has failed for want of an adapter.
C10_Witness ==
    adapter = "null" /\ pc = "rejected" /\ initError = NoAdapterMsg

\* C11: once init() has failed, no tick has run and nothing is on the queue
\* or pending, the host has the failure's message as its error, and the
\* renderer is neither stored in the ref nor given a snapshot.
C11_InitFailureIsFatal ==
    pc = "rejected" =>
        /\ ticks = 0
        /\ queue = <<>>
        /\ rafQueue = {}
        /\ ~rendererRef
        /\ state = DefaultState
        /\ (settled => error = initError /\ error # <<>>)

\* C11 witness: init() failed on the shader after the host's state changed.
C11_Witness ==
    /\ pc = "rejected" /\ settled
    /\ Head(error) = Head(ShaderFailedMsg)
    /\ appState # AppInitialState

\* The canvas has been sized by resize() for the current logical size:
\* logical size times pixel ratio, less its fraction.
CanvasFits ==
    \A k \in 1..2 :
        /\ canvas[k] * Scale =< clientSize[k] * dpr
        /\ clientSize[k] * dpr < (canvas[k] + 1) * Scale

\* C12 as stated: the canvas of an initialized renderer is exactly the
\* logical size times the pixel ratio, and every tick packs that resolution.
C12_ExactResolution ==
    /\ []("bindGroup" \in created /\ ~destroyed =>
            \A k \in 1..2 : canvas[k] * Scale = clientSize[k] * dpr)
    /\ [][ticks' = ticks + 1 =>
            \A k \in 1..2 : bufferData'[k - 1] * Scale = clientSize'[k] * dpr']_vars

\* C12: from the end of init() on, through every change of the logical
\* size, the canvas is the logical size times the pixel ratio cut to whole
\* pixels, and every tick packs the canvas size as its resolution.
C12_ResolutionFollowsSize ==
    /\ []("bindGroup" \in created /\ ~destroyed => CanvasFits)
    /\ [][ticks' = ticks + 1 =>
            /\ CanvasFits'
            /\ bufferData'[0] = canvas'[1]
            /\ bufferData'[1] = canvas'[2]]_vars

\* C12 witness: a tick has packed the resolution of a logical size other
\* than the one init() found, at a fractional pixel ratio.
C12_Witness ==
    /\ ticks >= 2
    /\ dpr = 150
    /\ clientSize = <<101, 50>>
    /\ bufferData[0] = 151
    /\ bufferData[1] = 75

\* The slot of each member's first component, as the layout contract has it.
ContractSlot(f) ==
    CASE f = "resolution" -> 0 [] f = "cameraPos" -> 4 [] f = "cameraDir" -> 8
      [] f = "cameraUp" -> 12 [] f = "time" -> 15 [] f = "viewMode" -> 16
      [] f = "wavelength" -> 17 [] f = "showMilkyWay" -> 18 [] f = "showJets" -> 19

ContractFields ==
    {"resolution", "cameraPos", "cameraDir", "cameraUp", "time", "viewMode",
     "wavelength", "showMilkyWay", "showJets"}

C14_DirectionDefined ==
    ticks >= 1 =>
        /\ \A i \in 8..10 : bufferData[i] # NaN
        /\ ((\A i \in 4..6 : bufferData[i] = 0) =>
                bufferData[8] * bufferData[8] + bufferData[9] * bufferData[9]
                    + bufferData[10] * bufferData[10] = Scale * Scale)

ReservedSlots == {2, 3, 7, 11, 20, 21, 22, 23}

\* C15: what a tick leaves in the buffer is, slot for slot, the block packed
\* from the snapshot, the time and the canvas size of that tick, whatever
\* the buffer held before; its reserved slots are 0; and the tick's write
\* starts at slot 0 and covers all 24 slots, the 96 bytes of the buffer.
C15_WholeBlockEachTick ==
    [][ticks' = ticks + 1 =>
        /\ \A i \in 0..(BlockSlots - 1) :
                bufferData'[i] = Pack(state, time', canvas')[i]
        /\ \A i \in ReservedSlots : bufferData'[i] = 0
        /\ queue'[Len(queue') - 1] = [op |-> "writeBuffer", arg |-> <<0, BlockSlots>>]
        /\ 4 * BlockSlots = BufferSize]_vars

\* C15 witness: three ticks, the second with another snapshot (the time
\* tells its speed), and the buffer shows the block of the third alone.
C15_Witness ==
    /\ ticks = 3
    /\ time = 250
    /\ state = AppInitialState
    /\ bufferData = Pack(AppInitialState, 250, canvas)

\* C19: the time is 0 until a tick runs, an executed tick adds the quantum
\* times the timeSpeed of the snapshot it reads, so nothing for a speed of 0
\* and never less than nothing for a speed of 0 or more, and no other step
\* changes the time.
C19_TimeAccumulates ==
    /\ [](ticks = 0 => time = 0)
    /\ [][/\ (ticks' = ticks + 1 =>
                /\ time' - time = Quantum * state.timeSpeed
                /\ (state.timeSpeed = 0 => time' = time)
                /\ (state.timeSpeed >= 0 => time' >= time))
          /\ (ticks' = ticks => time' = time)]_vars

\* C19 witness: a tick at speed 0 after ticks at other speeds.
C19_Witness ==
    ticks = 3 /\ time = 150 /\ state.timeSpeed = 0

\* C16 as stated: the loop of the kernel ends after at most 500 iterations by
\* one of three exits only: capture at the horizon, a hit of the background,
\* or the end of the step budget.
C16_ThreeExits ==
    /\ kI <= MaxSteps
    /\ kExit \in {"idle", "none", "horizon", "background", "budget"}

\* C16: the loop of the kernel ends after at most 500 iterations, by capture at
\* the horizon, a hit of the background, the end of the step budget, or the
\* early exit taken once transmit is below 0.01; while none of them is taken
\* the budget is not used up and transmit is at least 0.01.
C16_LoopExits ==
    /\ kI <= MaxSteps
    /\ kExit \in {"idle", "none", "horizon", "background", "budget", "opaque"}
    /\ kExit = "budget" <=> kI = MaxSteps
    /\ kExit = "opaque" <=> kTransmit < 10
    /\ kExit \in {"horizon", "background"} => kI < MaxSteps /\ kTransmit >= 10

\* The early exit is taken by a ray that has run through part of its budget.
C16_Witness == kExit = "opaque" /\ kI > 2 /\ kI < MaxSteps - 1

\* alpha of each layer that composites on a sample lies within [0, 1].
AlphasInRange(block, smp) ==
    /\ InDisk(smp) /\ smp.dens > 10 =>
           DiskAlpha(block, smp) >= 0 /\ DiskAlpha(block, smp) <= Milli
    /\ InJet(block, smp) =>
           JetAlpha(block, smp) >= 0 /\ JetAlpha(block, smp) <= Milli
    /\ InMilkyWay(block, smp) /\ smp.mwDens > 10 =>
           MilkyWayAlpha(block, smp) >= 0 /\ MilkyWayAlpha(block, smp) <= Milli

\* C17: transmit starts at 1, stays within [0, 1] and no iteration raises it;
\* the alpha by which a layer dims it lies within [0, 1].
C17_TransmitBounded ==
    /\ [](kTransmit >= 0 /\ kTransmit <= Milli)
    /\ [](kExit # "idle" => \A smp \in Samples : AlphasInRange(kBlock, smp))
    /\ [](kExit = "none" /\ kI = 0 => kTransmit = Milli)
    /\ [][kExit = "none" => kTransmit' <= kTransmit]_vars

\* A ray that layers have dimmed without making it opaque.
C17_Witness == kExit = "none" /\ kI > 3 /\ kTransmit > 10 /\ kTransmit < Milli \div 2

\* C18: in the gravity-grid view the disk is shaded with a Doppler factor of 1
\* and the colour (0, 1, 0.5), and its density, factor and colour are the same
\* for every wavelength band.
C18_GridIgnoresBand ==
    kExit # "idle" /\ U(kBlock, "viewMode") = 1 =>
        \A smp \in Samples : InDisk(smp) /\ smp.dens > 10 =>
            LET shade == DiskShade(1, U(kBlock, "wavelength"), smp)
            IN  /\ shade.doppler = Milli
                /\ shade.emitColor = <<0, Milli, Milli \div 2>>
                /\ \A w \in 0..3 : DiskShade(1, w, smp) = shade

\* A ray in the gravity-grid view dimmed by the disk in a band with a palette
\* of its own.
C18_Witness ==
    /\ kExit = "none"
    /\ U(kBlock, "viewMode") = 1
    /\ U(kBlock, "wavelength") = 1
    /\ kTransmit < Milli
    /\ kTransmit > (Milli * 4) \div 5

\* C20: whatever the controls and the tutorial do, cameraDistance stays within
\* [3.0, 300.0] and cameraAngleX within [-pi/2.1, pi/2.1].
C20_CameraClamped ==
    /\ appState.cameraDistance >= MinDistance
    /\ appState.cameraDistance <= MaxDistance
    /\ appState.cameraAngleX >= 0 - AngleLimit
    /\ appState.cameraAngleX <= AngleLimit

\* A drag has stopped at the lower limit of the angle with the camera wheeled
\* out to the far limit.
C20_Witness ==
    /\ isDragging
    /\ appState.cameraAngleX = 0 - AngleLimit
    /\ appState.cameraDistance = MaxDistance
    /\ appState.cameraAngleY # 0

Abs(n) == IF n < 0 THEN 0 - n ELSE n

\* A block whose camera sits at pos, looks along dir at the origin and has
\* the world's y axis as its up vector: dir is -pos / |pos| to the last digit.
LooksAtOrigin(block) ==
    LET pos == KernelRead(block, "cameraPos")
        dir == KernelRead(block, "cameraDir")
        len == Sqrt(pos[1] * pos[1] + pos[2] * pos[2] + pos[3] * pos[3])
    IN  /\ KernelRead(block, "cameraUp") = <<0, 1, 0>>
        /\ \A i \in 1..3 :
            /\ dir[i] # NaN
            /\ Abs(dir[i] * len + pos[i] * Scale) <= len
        /\ Abs(Sqrt(dir[1] * dir[1] + dir[2] * dir[2] + dir[3] * dir[3]) - Scale) <= 2

\* d * (cos(y)cos(x), sin(x), sin(y)cos(x)), in hundredths.
OrbitPosition(d, x, y) ==
    << (d * Cos(y) * Cos(x)) \div (Scale * Scale),
       (d * Sin(x)) \div Scale,
       (d * Sin(y) * Cos(x)) \div (Scale * Scale) >>

\* C21: the block a tick packs holds the position d * (cos(y)cos(x), sin(x),
\* sin(y)cos(x)), the direction -position / |position| and the up vector
\* (0, 1, 0), for every snapshot; distance 10 with both angles 0 packs
\* position (10, 0, 0) and direction (-1, 0, 0).
C21_LooksAtOrigin ==
    [][ticks' = ticks + 1 =>
        /\ KernelRead(bufferData', "cameraPos") =
               OrbitPosition(state.cameraDistance, state.cameraAngleX,
                             state.cameraAngleY)
        /\ LooksAtOrigin(bufferData')
        /\ (state.cameraDistance = 10 * Scale /\ state.cameraAngleX = 0
                /\ state.cameraAngleY = 0 =>
              /\ KernelRead(bufferData', "cameraPos") = <<10 * Scale, 0, 0>>
              /\ KernelRead(bufferData', "cameraDir") = <<0 - Scale, 0, 0>>)]_vars

\* C22: the iteration that finds r < Rs adds no term to col and ends the
\* loop, and a captured ray has no star term; the star term is added at most
\* once, by the iteration that ends the loop at the background, with the
\* transmit of that moment as its weight; once the loop has ended nothing of
\* the ray changes any more.
C22_CaptureAddsNothing ==
    /\ [](kExit = "horizon" => kAdded = {} /\ kStars = 0)
    /\ [](kStars <= 1 /\ (kStars = 1 <=> kExit = "background"))
    /\ [](kExit = "background" => kAdded = {Term("stars", kTransmit)})
    /\ [](kExit # "background" => \A x \in kAdded : x.layer # "stars")
    /\ [][kExit \notin {"idle", "none"} => UNCHANGED kernelVars]_vars

\* A ray is captured after layers have dimmed it.
C22_Witness == kExit = "horizon" /\ kI > 2 /\ kTransmit < Milli

\* C23: under a block whose showJets is 0 no iteration adds a jet term to col
\* and the jet layer leaves transmit as it is on every sample; the same for
\* showMilkyWay and the backdrop layer.
C23_FlagsGate ==
    kExit # "idle" =>
        /\ U(kBlock, "showJets") = 0 =>
              /\ \A x \in kAdded : x.layer # "jet"
              /\ \A smp \in Samples :
                    /\ JetTerms(kBlock, smp, kTransmit) = {}
                    /\ AfterJet(kBlock, smp, kTransmit) = kTransmit
        /\ U(kBlock, "showMilkyWay") = 0 =>
              /\ \A x \in kAdded : x.layer # "backdrop"
              /\ \A smp \in Samples :
                    /\ MilkyWayTerms(kBlock, smp, kTransmit) = {}
                    /\ AfterMilkyWay(kBlock, smp, kTransmit) = kTransmit

\* With the jets switched off a ray meets the sample that lies in the jet and
\* in the backdrop: the backdrop has dimmed it, the jet has not.
C23_Witness ==
    /\ kExit = "none"
    /\ U(kBlock, "showJets") = 0
    /\ U(kBlock, "showMilkyWay") = 1
    /\ \E x \in kAdded : x.layer = "backdrop" /\ x.weight > 0
    /\ kTransmit < Milli

\* The host component has been mounted and torn down again.
TornDown == ~mounted /\ pc # "new"

\* C24: once the host component is torn down the renderer it created has had
\* destroy() called on it, also when init() was still in progress, and it
\* executes no tick from then on.
C24_TeardownDestroys ==
    /\ [](TornDown => destroyed)
    /\ [][TornDown => ticks' = ticks]_vars

\* C25: when initRenderer has got past a fulfilled init() the renderer's
\* snapshot is the host's state of that moment, and every tick executed
\* while the host is mounted renders the host's current state.
C25_NoUpdateLost ==
    /\ [][~settled /\ settled' /\ rendererRef' => state' = appState']_vars
    /\ [][mounted /\ ticks' = ticks + 1 => TickState = appState]_vars

\* The step leaves every field of the host's parameters outside fields as it is.
OnlyChanges(fields) ==
    \A f \in DOMAIN appState \ fields : appState'[f] = appState[f]

\* C26: a drag changes only cameraAngleX and cameraAngleY, the wheel only
\* cameraDistance, a view-mode button only viewMode, a wavelength button only
\* wavelength, the time slider only timeSpeed, the jets button only showJets,
\* and the Milky-Way button only showMilkyWay, cameraDistance and cameraAngleX.
C26_OwnFieldsOnly ==
    [][/\ HandleMouseDown \/ HandleMouseUp => OnlyChanges({})
       /\ HandleMouseMove => OnlyChanges({"cameraAngleX", "cameraAngleY"})
       /\ HandleWheel => OnlyChanges({"cameraDistance"})
       /\ ClickViewMode => OnlyChanges({"viewMode"})
       /\ ClickWavelength => OnlyChanges({"wavelength"})
       /\ ChangeTimeSpeed => OnlyChanges({"timeSpeed"})
       /\ ClickJets => OnlyChanges({"showJets"})
       /\ ClickMilkyWay =>
              OnlyChanges({"showMilkyWay", "cameraDistance", "cameraAngleX"})]_vars

\* Every control has been used, and the tutorial has been closed at its
\* first step.
C26_Witness ==
    /\ ~showTutorial
    /\ appState.viewMode = 2
    /\ appState.wavelength = 3
    /\ appState.timeSpeed = 0
    /\ ~appState.showJets
    /\ appState.showMilkyWay
    /\ appState.cameraDistance = MaxDistance
    /\ appState.cameraAngleX = 296
    /\ appState.cameraAngleY # 0

\* The fields a step's action assigns, as TUTORIAL_STEPS lists them.
StepAssigns(n) ==
    CASE n = 0 -> [viewMode |-> 0, wavelength |-> 0, showMilkyWay |-> FALSE]
      [] n = 4 -> [viewMode |-> 1]
      [] n = 5 -> [viewMode |-> 0, wavelength |-> 1]
      [] n = 6 -> [wavelength |-> 0, showMilkyWay |-> TRUE,
                   cameraDistance |-> 150 * Scale, cameraAngleX |-> 800]
      [] n = 7 -> [showMilkyWay |-> FALSE, cameraDistance |-> 12 * Scale]
      [] OTHER -> <<>>

\* C27: the step index stays within 0..7; next and prev move it by one and
\* stop at the last and the first step; entering a step assigns the fields
\* of its action and leaves the others, and a step without an action, or a
\* next or prev that does not move, leaves the parameters as they are.
C27_TutorialSteps ==
    /\ [](step \in 0..7)
    /\ [][TutorialMove =>
            /\ step' \in {step - 1, step, step + 1}
            /\ step' = step => step \in {0, 7} /\ appState' = appState
            /\ step' # step =>
                  /\ \A f \in DOMAIN StepAssigns(step') :
                        appState'[f] = StepAssigns(step')[f]
                  /\ OnlyChanges(DOMAIN StepAssigns(step'))]_vars

\* The tutorial has been walked to its last step: the backdrop is off again
\* and the camera back at 12, still tilted as step 6 left it.
C27_Witness ==
    /\ showTutorial
    /\ step = LastStep
    /\ appState.viewMode = 0
    /\ appState.wavelength = 0
    /\ ~appState.showMilkyWay
    /\ appState.cameraDistance = 12 * Scale
    /\ appState.cameraAngleX = 800

====
